---- MODULE Spec2Model ----
(***************************************************************************)
(* Model of the dac CLI (src/dac/cli.py) and its Kibana client             *)
(* (src/dac/client.py): the diff and push commands run against a backend   *)
(* holding a list of detection rules.  One command runs at a time; every   *)
(* backend request is one step.                                            *)
(***************************************************************************)
EXTENDS Integers, Sequences, FiniteSets, TLC

\* ---------------------------------------------------------------- bounds
MaxRules == 2          \* rules held by the backend
MaxManifest == 3       \* identifiers listed in the manifest, both lists together
MaxSrvPage == 2        \* largest page the backend serves

\* page counter of the fetch loop is folded above this value (see NextPage);
\* it exceeds the number of pages any consistent backend needs
MaxPageReq == MaxRules + 3

\* the request log is not extended beyond this length; a command against a
\* consistent backend issues fewer requests
MaxRequests == MaxPageReq + 2

\* ------------------------------------------------------ program constants
per_page == 1000       \* client.py: page size requested by get_all_rules

RuleIds == {"A", "B"}  \* external rule identifiers (rule_id)
NoRuleId == "none"     \* a backend rule without a rule_id

NoExit == -1           \* the command is still running

VARIABLES
    in_scope,        \* manifest: [enabled, disabled], lists of rule_id
    remote,          \* backend: list of [id, rule_id, enabled]
    srv_page,        \* backend: largest page it serves
    backend,         \* backend: "honest" | "overcount" (total too large)
    cmd,             \* "none" | "diff" | "push"
    dry_run,         \* push --dry-run
    pc,              \* "idle" | "fetch" | "fetched" | "enable" | "disable" | "done"
    client_open,     \* ElasticClient constructed and not closed
    page,            \* get_all_rules: page
    all_rules,       \* get_all_rules: all_rules
    rule_map,        \* rule_id -> [id, enabled]
    to_enable,       \* diff: rule_ids to enable
    to_disable,      \* diff: rule_ids to disable
    to_enable_ids,   \* push: internal ids to enable
    to_disable_ids,  \* push: internal ids to disable
    not_found,       \* rule_ids absent from rule_map
    classified,      \* the classification of this command has been computed
    bulk_calls,      \* bulk_action requests of this command: [action, ids, ok]
    report,          \* final message: "none" | "changes" | "no_changes" | "push_complete"
    exit_code,       \* process exit code, NoExit while running
    requests,        \* backend requests of this command: [kind, page, ok]
    prev_report,     \* classification of the last command, if the backend is unchanged since
    prev_applied,    \* the last mutation of the backend was a fully successful push
    fs,              \* customers/: customer id -> [exists, config, rules]
    r_cmd,           \* registry command run last: "none" | "add" | "list" | "validate"
    r_arg,           \* its customer id
    r_exit,          \* its exit code
    r_errors,        \* validate: the errors it reported
    r_listed         \* list: the customers it printed

vars == <<in_scope, remote, srv_page, backend, cmd, dry_run, pc, client_open,
          page, all_rules, rule_map, to_enable, to_disable, to_enable_ids,
          to_disable_ids, not_found, classified, bulk_calls, report,
          exit_code, requests, prev_report, prev_applied,
          fs, r_cmd, r_arg, r_exit, r_errors, r_listed>>

cli == <<in_scope, remote, srv_page, backend, cmd, dry_run, pc, client_open,
         page, all_rules, rule_map, to_enable, to_disable, to_enable_ids,
         to_disable_ids, not_found, classified, bulk_calls, report,
         exit_code, requests, prev_report, prev_applied>>

reg == <<fs, r_cmd, r_arg, r_exit, r_errors, r_listed>>

locals == <<page, all_rules, rule_map, to_enable, to_disable, to_enable_ids,
            to_disable_ids, not_found, classified, bulk_calls, report>>

\* ---------------------------------------------------------------- helpers
Min(a, b) == IF a < b THEN a ELSE b

SeqsUpTo(S, n) == UNION {[1..k -> S] : k \in 0..n}

Range(s) == {s[i] : i \in DOMAIN s}

EmptyMap == [x \in {} |-> [id |-> 0, enabled |-> FALSE]]

\* ---------------------------------------------------------------- backend
\* Rule lists the backend can hold: internal ids are unique.
RemoteLists ==
    {r \in SeqsUpTo([id : 1..MaxRules, rule_id : RuleIds, enabled : BOOLEAN],
                     MaxRules) :
        \A i \in DOMAIN r : r[i].id = i}

Manifests ==
    {m \in [enabled : SeqsUpTo(RuleIds, MaxManifest),
            disabled : SeqsUpTo(RuleIds, MaxManifest)] :
        Len(m.enabled) + Len(m.disabled) <= MaxManifest}

\* GET /detection_engine/rules/_find?page=&per_page=
find_rules(p, pp) ==
    LET sz == Min(pp, srv_page)
        lo == (p - 1) * sz + 1
        hi == Min(p * sz, Len(remote))
    IN  [data  |-> IF lo <= hi THEN SubSeq(remote, lo, hi) ELSE <<>>,
         total |-> IF backend = "honest" THEN Len(remote) ELSE Len(remote) + 1]

\* POST /detection_engine/rules/_bulk_action, applied to every listed rule
bulk_apply(action, ids) ==
    [i \in DOMAIN remote |->
        IF remote[i].id \in Range(ids)
        THEN [remote[i] EXCEPT !.enabled = (action = "enable")]
        ELSE remote[i]]

\* ------------------------------------------------------- get_all_rules
\* page += 1; values above MaxPageReq are folded back so that the
\* unbounded loop is a finite cycle of the model
\* mutant: page is never advanced
NextPage_stay(p) == p

NextPage(p) == IF p < MaxPageReq THEN p + 1 ELSE MaxPageReq - 1

\* ------------------------------------------------------------------ diff
\* cli.py diff: "Build a map of rule_id -> rule info" (last seen wins)
RECURSIVE diff_rule_map(_, _)
diff_rule_map(rules, m) ==
    IF rules = <<>> THEN m
    ELSE LET rule == Head(rules)
             rid == rule.rule_id
         IN  diff_rule_map(Tail(rules),
                 IF rid # NoRuleId
                 THEN [x \in DOMAIN m \cup {rid} |->
                          IF x = rid THEN [id |-> rule.id, enabled |-> rule.enabled]
                          ELSE m[x]]
                 ELSE m)

\* mutant: the rule is put in front of to_enable
RECURSIVE diff_enabled_loop_front(_, _, _)
diff_enabled_loop_front(ids, rm, st) ==
    IF ids = <<>> THEN st
    ELSE LET rid == Head(ids)
         IN  diff_enabled_loop_front(Tail(ids), rm,
                 IF rid \notin DOMAIN rm
                 THEN [st EXCEPT !.not_found = Append(@, rid)]
                 ELSE IF ~rm[rid].enabled
                 THEN [st EXCEPT !.to_enable = <<rid>> \o @]
                 ELSE st)

\* cli.py diff: for rule_id in in_scope.enabled
RECURSIVE diff_enabled_loop(_, _, _)
diff_enabled_loop(ids, rm, st) ==
    IF ids = <<>> THEN st
    ELSE LET rid == Head(ids)
         IN  diff_enabled_loop(Tail(ids), rm,
                 IF rid \notin DOMAIN rm
                 THEN [st EXCEPT !.not_found = Append(@, rid)]
                 ELSE IF ~rm[rid].enabled
                 THEN [st EXCEPT !.to_enable = Append(@, rid)]
                 ELSE st)

\* mutant: an absent rule_id of the disabled list is not recorded
RECURSIVE diff_disabled_loop_silent(_, _, _)
diff_disabled_loop_silent(ids, rm, st) ==
    IF ids = <<>> THEN st
    ELSE LET rid == Head(ids)
         IN  diff_disabled_loop_silent(Tail(ids), rm,
                 IF rid \notin DOMAIN rm
                 THEN st
                 ELSE IF rm[rid].enabled
                 THEN [st EXCEPT !.to_disable = Append(@, rid)]
                 ELSE st)

\* cli.py diff: for rule_id in in_scope.disabled
RECURSIVE diff_disabled_loop(_, _, _)
diff_disabled_loop(ids, rm, st) ==
    IF ids = <<>> THEN st
    ELSE LET rid == Head(ids)
         IN  diff_disabled_loop(Tail(ids), rm,
                 IF rid \notin DOMAIN rm
                 THEN [st EXCEPT !.not_found = Append(@, rid)]
                 ELSE IF rm[rid].enabled
                 THEN [st EXCEPT !.to_disable = Append(@, rid)]
                 ELSE st)

\* cli.py diff: "Calculate drift"
diff_drift(m, rm) ==
    diff_disabled_loop(m.disabled, rm,
        diff_enabled_loop(m.enabled, rm,
            [to_enable |-> <<>>, to_disable |-> <<>>, not_found |-> <<>>]))

\* ------------------------------------------------------------------ push
\* cli.py push: "Build rule map" (last seen wins)
RECURSIVE push_rule_map(_, _)
push_rule_map(rules, m) ==
    IF rules = <<>> THEN m
    ELSE LET rule == Head(rules)
             rid == rule.rule_id
         IN  push_rule_map(Tail(rules),
                 IF rid # NoRuleId
                 THEN [x \in DOMAIN m \cup {rid} |->
                          IF x = rid THEN [id |-> rule.id, enabled |-> rule.enabled]
                          ELSE m[x]]
                 ELSE m)

\* mutant: every listed rule that exists is enabled again, whatever its flag
RECURSIVE push_enabled_loop_nocheck(_, _, _)
push_enabled_loop_nocheck(ids, rm, st) ==
    IF ids = <<>> THEN st
    ELSE LET rid == Head(ids)
         IN  push_enabled_loop_nocheck(Tail(ids), rm,
                 IF rid \notin DOMAIN rm
                 THEN [st EXCEPT !.not_found = Append(@, rid)]
                 ELSE [st EXCEPT !.to_enable_ids = Append(@, rm[rid].id)])

\* mutant: the loop ends at the first rule_id that is not found
RECURSIVE push_enabled_loop_break(_, _, _)
push_enabled_loop_break(ids, rm, st) ==
    IF ids = <<>> THEN st
    ELSE LET rid == Head(ids)
         IN  IF rid \notin DOMAIN rm
             THEN [st EXCEPT !.not_found = Append(@, rid)]
             ELSE push_enabled_loop_break(Tail(ids), rm,
                     IF ~rm[rid].enabled
                     THEN [st EXCEPT !.to_enable_ids = Append(@, rm[rid].id)]
                     ELSE st)

\* cli.py push: for rule_id in in_scope.enabled
RECURSIVE push_enabled_loop(_, _, _)
push_enabled_loop(ids, rm, st) ==
    IF ids = <<>> THEN st
    ELSE LET rid == Head(ids)
         IN  push_enabled_loop(Tail(ids), rm,
                 IF rid \notin DOMAIN rm
                 THEN [st EXCEPT !.not_found = Append(@, rid)]
                 ELSE IF ~rm[rid].enabled
                 THEN [st EXCEPT !.to_enable_ids = Append(@, rm[rid].id)]
                 ELSE st)

\* mutant: the test of the enabled loop is used for the disabled list
RECURSIVE push_disabled_loop_copied(_, _, _)
push_disabled_loop_copied(ids, rm, st) ==
    IF ids = <<>> THEN st
    ELSE LET rid == Head(ids)
         IN  push_disabled_loop_copied(Tail(ids), rm,
                 IF rid \notin DOMAIN rm
                 THEN [st EXCEPT !.not_found = Append(@, rid)]
                 ELSE IF ~rm[rid].enabled
                 THEN [st EXCEPT !.to_disable_ids = Append(@, rm[rid].id)]
                 ELSE st)

\* cli.py push: for rule_id in in_scope.disabled
RECURSIVE push_disabled_loop(_, _, _)
push_disabled_loop(ids, rm, st) ==
    IF ids = <<>> THEN st
    ELSE LET rid == Head(ids)
         IN  push_disabled_loop(Tail(ids), rm,
                 IF rid \notin DOMAIN rm
                 THEN [st EXCEPT !.not_found = Append(@, rid)]
                 ELSE IF rm[rid].enabled
                 THEN [st EXCEPT !.to_disable_ids = Append(@, rm[rid].id)]
                 ELSE st)

\* mutant: the manifest is taken as the complete list of enabled rules, so
\* every other enabled rule of the rule map is disabled as well
RECURSIVE SetToSeq(_)
SetToSeq(S) ==
    IF S = {} THEN <<>>
    ELSE LET x == CHOOSE y \in S : TRUE IN <<x>> \o SetToSeq(S \ {x})

push_changes_exclusive(m, rm) ==
    LET d == push_disabled_loop(m.disabled, rm,
                 push_enabled_loop(m.enabled, rm,
                     [to_enable_ids |-> <<>>, to_disable_ids |-> <<>>,
                      not_found |-> <<>>]))
        others == {x \in DOMAIN rm : x \notin Range(m.enabled) /\ rm[x].enabled
                                      /\ rm[x].id \notin Range(d.to_disable_ids)}
    IN  [d EXCEPT !.to_disable_ids = @ \o [i \in 1..Cardinality(others) |->
                                              rm[SetToSeq(others)[i]].id]]

\* cli.py push: "Calculate changes"
push_changes(m, rm) ==
    push_disabled_loop(m.disabled, rm,
        push_enabled_loop(m.enabled, rm,
            [to_enable_ids |-> <<>>, to_disable_ids |-> <<>>, not_found |-> <<>>]))

\* mutant: the dry-run flag is not consulted
after_changes_apply(dr, en, dis) ==
    IF en # <<>> THEN "enable"
    ELSE IF dis # <<>> THEN "disable"
    ELSE "done"

\* cli.py push: which step follows the classification in apply mode
\* (if to_enable_ids: ... if to_disable_ids: ...)
after_changes(dr, en, dis) ==
    IF dr THEN "done"
    ELSE IF en # <<>> THEN "enable"
    ELSE IF dis # <<>> THEN "disable"
    ELSE "done"

\* mutant: the disable call is issued whether or not there is a rule to disable
after_enable_always(dis) == "disable"

\* cli.py push: which step follows a successful enable call
after_enable(dis) == IF dis # <<>> THEN "disable" ELSE "done"

\* ------------------------------------------------------------- history
NoReport == [mode |-> "none", to_enable |-> <<>>, to_disable |-> <<>>,
             not_found |-> <<>>]

Mode == IF cmd = "diff" THEN "diff" ELSE IF dry_run THEN "dry_run" ELSE "apply"

\* the classification of the running command, as internal ids
\* (rule_map is injective on ids, so this names the rule identifiers)
CurrentReport ==
    [mode |-> Mode,
     to_enable |-> IF cmd = "diff"
                   THEN [i \in DOMAIN to_enable |-> rule_map[to_enable[i]].id]
                   ELSE to_enable_ids,
     to_disable |-> IF cmd = "diff"
                    THEN [i \in DOMAIN to_disable |-> rule_map[to_disable[i]].id]
                    ELSE to_disable_ids,
     not_found |-> not_found]

Mutated == \E i \in DOMAIN bulk_calls : bulk_calls[i].ok

\* ------------------------------------------------------------- registry
Customers == {"acme", "beta"}

\* the fields of CustomerConfig and InScopeRules a document can get wrong
ConfigFields == <<"name", "enabled_rules_repo">>

RulesFields == <<"enabled", "disabled">>

\* a file is missing, is no YAML ("garbled"), is YAML but no mapping (a
\* list, a string), or is a mapping with the fields in bad failing the schema
FileStates(fields) ==
    {[kind |-> k, bad |-> {}] : k \in {"missing", "garbled", "not_mapping"}}
        \cup {[kind |-> "doc", bad |-> b] : b \in SUBSET Range(fields)}

NoDir == [exists |-> FALSE,
          config |-> [kind |-> "missing", bad |-> {}],
          rules |-> [kind |-> "missing", bad |-> {}]]

DirStates ==
    {NoDir} \cup [exists : {TRUE}, config : FileStates(ConfigFields),
                  rules : FileStates(RulesFields)]

\* cli.py add_customer: the files written from the templates.  The rules
\* template has only comments under "enabled:", which YAML reads as null,
\* so the file fails the schema on that field
Scaffold ==
    [exists |-> TRUE,
     config |-> [kind |-> "doc", bad |-> {}],
     rules |-> [kind |-> "doc", bad |-> {"enabled"}]]

\* cli.py list_customers
list_customers(tree) ==
    {c \in Customers : tree[c].exists /\ tree[c].config.kind # "missing"}

\* cli.py validate: one file.  A document that is no mapping makes
\* Model(**data) raise TypeError, which neither except clause catches
file_errors(name, f, fields) ==
    LET IsBad(x) == x \in f.bad
        badf == SelectSeq(fields, IsBad)
    IN  [raised |-> f.kind = "not_mapping",
         errors |->
            IF f.kind = "missing"
            THEN <<[file |-> name, what |-> "file not found"]>>
            ELSE IF f.kind = "garbled"
            THEN <<[file |-> name, what |-> "YAML parse error"]>>
            ELSE IF f.kind = "doc"
            THEN [i \in DOMAIN badf |-> [file |-> name, what |-> badf[i]]]
            ELSE <<>>]

\* cli.py validate: exit code and the errors of the summary
validate_run(d) ==
    IF ~d.exists THEN [exit |-> 1, errors |-> <<>>]
    ELSE LET cf == file_errors("config.yaml", d.config, ConfigFields)
             rf == file_errors("in-scope-rules.yaml", d.rules, RulesFields)
             errors == cf.errors \o rf.errors
         IN  IF cf.raised \/ rf.raised
             THEN [exit |-> 1, errors |-> <<>>]
             ELSE [exit |-> IF errors # <<>> THEN 1 ELSE 0, errors |-> errors]

\* -------------------------------------------------------------- actions
RegUnused ==
    /\ fs = [c \in Customers |-> NoDir]
    /\ r_cmd = "none"
    /\ r_arg = "acme"
    /\ r_exit = 0
    /\ r_errors = <<>>
    /\ r_listed = {}

InitLocals ==
    /\ cmd = "none"
    /\ dry_run = FALSE
    /\ pc = "idle"
    /\ client_open = FALSE
    /\ page = 1
    /\ all_rules = <<>>
    /\ rule_map = EmptyMap
    /\ to_enable = <<>>
    /\ to_disable = <<>>
    /\ to_enable_ids = <<>>
    /\ to_disable_ids = <<>>
    /\ not_found = <<>>
    /\ classified = FALSE
    /\ bulk_calls = <<>>
    /\ report = "none"
    /\ exit_code = NoExit
    /\ requests = <<>>
    /\ prev_report = NoReport
    /\ prev_applied = FALSE

\* any manifest against any rule list of a consistent backend that serves
\* one rule per page, so that every fetch walks the pages (the page sizes
\* and the inconsistent backend are varied in InitFetch)
Init ==
    /\ in_scope \in Manifests
    /\ remote \in RemoteLists
    /\ srv_page = 1
    /\ backend = "honest"
    /\ InitLocals
    /\ RegUnused

\* the rule listing alone: any rule list, page size and backend behaviour
InitFetch ==
    /\ in_scope = [enabled |-> <<>>, disabled |-> <<>>]
    /\ remote \in RemoteLists
    /\ srv_page \in 1..MaxSrvPage
    /\ backend \in {"honest", "overcount"}
    /\ InitLocals
    /\ RegUnused

ResetLocals ==
    /\ page' = 1
    /\ all_rules' = <<>>
    /\ rule_map' = EmptyMap
    /\ to_enable' = <<>>
    /\ to_disable' = <<>>
    /\ to_enable_ids' = <<>>
    /\ to_disable_ids' = <<>>
    /\ not_found' = <<>>
    /\ classified' = FALSE
    /\ bulk_calls' = <<>>
    /\ report' = "none"
    /\ requests' = <<>>

\* the request log of the running command, extended by one request
logged(kind, pg, ok) ==
    IF Len(requests) < MaxRequests
    THEN Append(requests, [kind |-> kind, page |-> pg, ok |-> ok])
    ELSE requests

\* what the next command may assume about the one that just ended
Remember ==
    /\ prev_report' = IF Mutated THEN NoReport
                      ELSE IF classified THEN CurrentReport
                      ELSE prev_report
    /\ prev_applied' = IF cmd = "push" /\ ~dry_run /\ exit_code = 0 THEN TRUE
                       ELSE IF bulk_calls # <<>> THEN FALSE
                       ELSE prev_applied

\* diff / push up to the construction of the client: a missing customer
\* directory exits 1 (as does a YAML or schema exception, which is not
\* caught), settings that cannot be loaded exit 2
Start(c, dr, env) ==
    /\ pc \in {"idle", "done"}
    /\ UNCHANGED reg
    /\ Remember
    /\ ResetLocals
    /\ cmd' = c
    /\ dry_run' = dr
    /\ IF env = "ok"
       THEN pc' = "fetch" /\ client_open' = TRUE /\ exit_code' = NoExit
       ELSE /\ pc' = "done"
            /\ client_open' = FALSE
            /\ exit_code' = IF env = "no_customer" THEN 1 ELSE 2
    /\ UNCHANGED <<in_scope, remote, srv_page, backend>>

StartDiff == \E env \in {"ok", "no_customer", "bad_settings"} : Start("diff", FALSE, env)

StartPush == \E dr \in BOOLEAN, env \in {"ok", "no_customer", "bad_settings"} :
                Start("push", dr, env)

\* one iteration of the loop of get_all_rules
FetchPage ==
    /\ pc = "fetch"
    /\ UNCHANGED reg
    /\ requests' = logged("find", page, TRUE)
    /\ LET result == find_rules(page, per_page)
           acc == all_rules \o result.data
       IN  /\ all_rules' = acc
           /\ IF Len(acc) >= result.total
              THEN /\ pc' = "fetched"
                   /\ page' = page
                   /\ client_open' = (cmd # "diff")
              ELSE /\ pc' = "fetch"
                   /\ page' = NextPage(page)
                   /\ client_open' = client_open
    /\ UNCHANGED <<in_scope, remote, srv_page, backend, cmd, dry_run, rule_map,
                   to_enable, to_disable, to_enable_ids, to_disable_ids,
                   not_found, classified, bulk_calls, report, exit_code,
                   prev_report, prev_applied>>

\* mutant: a failed find_rules request is sent again
FetchFail_retry ==
    /\ pc = "fetch"
    /\ UNCHANGED reg
    /\ requests' = logged("find", page, FALSE)
    /\ pc' = "fetch"
    /\ client_open' = client_open
    /\ exit_code' = exit_code
    /\ UNCHANGED <<in_scope, remote, srv_page, backend, cmd, dry_run,
                   prev_report, prev_applied>>
    /\ UNCHANGED locals

\* find_rules raises (raise_for_status, connection error)
FetchFail ==
    /\ pc = "fetch"
    /\ UNCHANGED reg
    /\ requests' = logged("find", page, FALSE)
    /\ pc' = "done"
    /\ client_open' = FALSE
    /\ exit_code' = 2
    /\ UNCHANGED <<in_scope, remote, srv_page, backend, cmd, dry_run,
                   prev_report, prev_applied>>
    /\ UNCHANGED locals

\* mutant: drift is reported through the exit code
DiffReport_drift1 ==
    /\ pc = "fetched" /\ cmd = "diff"
    /\ UNCHANGED reg
    /\ UNCHANGED requests
    /\ LET rm == diff_rule_map(all_rules, EmptyMap)
           d == diff_drift(in_scope, rm)
           changes == d.to_enable # <<>> \/ d.to_disable # <<>> \/ d.not_found # <<>>
       IN  /\ rule_map' = rm
           /\ to_enable' = d.to_enable
           /\ to_disable' = d.to_disable
           /\ not_found' = d.not_found
           /\ report' = IF changes THEN "changes" ELSE "no_changes"
           /\ exit_code' = IF changes THEN 1 ELSE 0
    /\ classified' = TRUE
    /\ pc' = "done"
    /\ UNCHANGED <<in_scope, remote, srv_page, backend, cmd, dry_run, client_open,
                   page, all_rules, to_enable_ids, to_disable_ids, bulk_calls,
                   prev_report, prev_applied>>

\* diff after the fetch: rule map, drift, report
DiffReport ==
    /\ pc = "fetched" /\ cmd = "diff"
    /\ UNCHANGED reg
    /\ UNCHANGED requests
    /\ LET rm == diff_rule_map(all_rules, EmptyMap)
           d == diff_drift(in_scope, rm)
       IN  /\ rule_map' = rm
           /\ to_enable' = d.to_enable
           /\ to_disable' = d.to_disable
           /\ not_found' = d.not_found
           /\ report' = IF d.to_enable # <<>> \/ d.to_disable # <<>> \/ d.not_found # <<>>
                        THEN "changes" ELSE "no_changes"
    /\ classified' = TRUE
    /\ pc' = "done"
    /\ exit_code' = 0
    /\ UNCHANGED <<in_scope, remote, srv_page, backend, cmd, dry_run, client_open,
                   page, all_rules, to_enable_ids, to_disable_ids, bulk_calls,
                   prev_report, prev_applied>>

\* push after the fetch: rule map, changes, and the dry-run report
PushChanges ==
    /\ pc = "fetched" /\ cmd = "push"
    /\ UNCHANGED reg
    /\ UNCHANGED requests
    /\ LET rm == push_rule_map(all_rules, EmptyMap)
           d == push_changes(in_scope, rm)
           has_changes == d.to_enable_ids # <<>> \/ d.to_disable_ids # <<>>
           nxt == after_changes(dry_run, d.to_enable_ids, d.to_disable_ids)
       IN  /\ rule_map' = rm
           /\ to_enable_ids' = d.to_enable_ids
           /\ to_disable_ids' = d.to_disable_ids
           /\ not_found' = d.not_found
           /\ pc' = nxt
           /\ report' = IF nxt # "done" THEN "none"
                        ELSE IF ~has_changes THEN "no_changes"
                        ELSE "changes"
           /\ exit_code' = IF nxt = "done" THEN 0 ELSE NoExit
           /\ client_open' = (nxt # "done")
    /\ classified' = TRUE
    /\ UNCHANGED <<in_scope, remote, srv_page, backend, cmd, dry_run,
                   page, all_rules, to_enable, to_disable, bulk_calls,
                   prev_report, prev_applied>>

\* client.bulk_action("enable", to_enable_ids) succeeds
BulkEnable ==
    /\ pc = "enable"
    /\ UNCHANGED reg
    /\ requests' = logged("enable", 0, TRUE)
    /\ bulk_calls' = Append(bulk_calls,
                        [action |-> "enable", ids |-> to_enable_ids, ok |-> TRUE])
    /\ remote' = bulk_apply("enable", to_enable_ids)
    /\ LET nxt == after_enable(to_disable_ids)
       IN  /\ pc' = nxt
           /\ report' = IF nxt = "done" THEN "push_complete" ELSE "none"
           /\ exit_code' = IF nxt = "done" THEN 0 ELSE NoExit
           /\ client_open' = (nxt # "done")
    /\ UNCHANGED <<in_scope, srv_page, backend, cmd, dry_run, page, all_rules,
                   rule_map, to_enable, to_disable, to_enable_ids,
                   to_disable_ids, not_found, classified, prev_report,
                   prev_applied>>

\* mutant: the client is closed at the end of the block only, not on an exception
BulkEnableFail_leak ==
    /\ pc = "enable"
    /\ UNCHANGED reg
    /\ requests' = logged("enable", 0, FALSE)
    /\ bulk_calls' = Append(bulk_calls,
                        [action |-> "enable", ids |-> to_enable_ids, ok |-> FALSE])
    /\ pc' = "done"
    /\ exit_code' = 2
    /\ client_open' = client_open
    /\ UNCHANGED <<in_scope, remote, srv_page, backend, cmd, dry_run, page,
                   all_rules, rule_map, to_enable, to_disable, to_enable_ids,
                   to_disable_ids, not_found, classified, report, prev_report,
                   prev_applied>>

\* client.bulk_action("enable", ...) raises
BulkEnableFail ==
    /\ pc = "enable"
    /\ UNCHANGED reg
    /\ requests' = logged("enable", 0, FALSE)
    /\ bulk_calls' = Append(bulk_calls,
                        [action |-> "enable", ids |-> to_enable_ids, ok |-> FALSE])
    /\ pc' = "done"
    /\ exit_code' = 2
    /\ client_open' = FALSE
    /\ UNCHANGED <<in_scope, remote, srv_page, backend, cmd, dry_run, page,
                   all_rules, rule_map, to_enable, to_disable, to_enable_ids,
                   to_disable_ids, not_found, classified, report, prev_report,
                   prev_applied>>

\* client.bulk_action("disable", to_disable_ids) succeeds
BulkDisable ==
    /\ pc = "disable"
    /\ UNCHANGED reg
    /\ requests' = logged("disable", 0, TRUE)
    /\ bulk_calls' = Append(bulk_calls,
                        [action |-> "disable", ids |-> to_disable_ids, ok |-> TRUE])
    /\ remote' = bulk_apply("disable", to_disable_ids)
    /\ pc' = "done"
    /\ report' = "push_complete"
    /\ exit_code' = 0
    /\ client_open' = FALSE
    /\ UNCHANGED <<in_scope, srv_page, backend, cmd, dry_run, page, all_rules,
                   rule_map, to_enable, to_disable, to_enable_ids,
                   to_disable_ids, not_found, classified, prev_report,
                   prev_applied>>

\* mutant: the failed disable call is followed by a rollback of the enable call
BulkDisableFail_rollback ==
    /\ pc = "disable"
    /\ UNCHANGED reg
    /\ requests' = requests \o
            <<[kind |-> "disable", page |-> 0, ok |-> FALSE],
              [kind |-> "disable", page |-> 0, ok |-> TRUE]>>
    /\ bulk_calls' = bulk_calls \o
            <<[action |-> "disable", ids |-> to_disable_ids, ok |-> FALSE],
              [action |-> "disable", ids |-> to_enable_ids, ok |-> TRUE]>>
    /\ remote' = bulk_apply("disable", to_enable_ids)
    /\ pc' = "done"
    /\ exit_code' = 2
    /\ client_open' = FALSE
    /\ UNCHANGED <<in_scope, srv_page, backend, cmd, dry_run, page,
                   all_rules, rule_map, to_enable, to_disable, to_enable_ids,
                   to_disable_ids, not_found, classified, report, prev_report,
                   prev_applied>>

\* client.bulk_action("disable", ...) raises
BulkDisableFail ==
    /\ pc = "disable"
    /\ UNCHANGED reg
    /\ requests' = logged("disable", 0, FALSE)
    /\ bulk_calls' = Append(bulk_calls,
                        [action |-> "disable", ids |-> to_disable_ids, ok |-> FALSE])
    /\ pc' = "done"
    /\ exit_code' = 2
    /\ client_open' = FALSE
    /\ UNCHANGED <<in_scope, remote, srv_page, backend, cmd, dry_run, page,
                   all_rules, rule_map, to_enable, to_disable, to_enable_ids,
                   to_disable_ids, not_found, classified, report, prev_report,
                   prev_applied>>

Next ==
    \/ StartDiff
    \/ StartPush
    \/ FetchPage
    \/ FetchFail
    \/ DiffReport
    \/ PushChanges
    \/ BulkEnable
    \/ BulkEnableFail
    \/ BulkDisable
    \/ BulkDisableFail

Spec == Init /\ [][Next]_vars

NextFetch ==
    \/ StartDiff
    \/ FetchPage
    \/ FetchFail
    \/ DiffReport

\* the loop of get_all_rules keeps running; whether a request fails is up
\* to the backend
SpecFetch == InitFetch /\ [][NextFetch]_vars /\ WF_vars(FetchPage)

\* ---------------------------------------------------- registry commands
\* mutant: the directory is created with exist_ok, the files written anyway
add_customer_overwrite(c) ==
    /\ r_cmd' = "add"
    /\ r_arg' = c
    /\ r_exit' = 0
    /\ fs' = [fs EXCEPT ![c] = Scaffold]
    /\ UNCHANGED <<r_errors, r_listed>>
    /\ UNCHANGED cli

\* cli.py add_customer
add_customer(c) ==
    /\ r_cmd' = "add"
    /\ r_arg' = c
    /\ IF fs[c].exists
       THEN r_exit' = 1 /\ fs' = fs
       ELSE r_exit' = 0 /\ fs' = [fs EXCEPT ![c] = Scaffold]
    /\ UNCHANGED <<r_errors, r_listed>>
    /\ UNCHANGED cli

\* cli.py list
list ==
    /\ r_cmd' = "list"
    /\ r_listed' = list_customers(fs)
    /\ r_exit' = 0
    /\ UNCHANGED <<fs, r_arg, r_errors>>
    /\ UNCHANGED cli

\* cli.py validate
validate(c) ==
    /\ r_cmd' = "validate"
    /\ r_arg' = c
    /\ r_exit' = validate_run(fs[c]).exit
    /\ r_errors' = validate_run(fs[c]).errors
    /\ UNCHANGED <<fs, r_listed>>
    /\ UNCHANGED cli

AddCustomer == \E c \in Customers : add_customer(c)

Validate == \E c \in Customers : validate(c)

\* any customers/ tree
InitReg ==
    /\ in_scope = [enabled |-> <<>>, disabled |-> <<>>]
    /\ remote = <<>>
    /\ srv_page = 1
    /\ backend = "honest"
    /\ InitLocals
    /\ fs \in [Customers -> DirStates]
    /\ r_cmd = "none"
    /\ r_arg = "acme"
    /\ r_exit = 0
    /\ r_errors = <<>>
    /\ r_listed = {}

NextReg ==
    \/ AddCustomer
    \/ Validate
    \/ list

SpecReg == InitReg /\ [][NextReg]_vars

TypeOK ==
    /\ pc \in {"idle", "fetch", "fetched", "enable", "disable", "done"}
    /\ exit_code \in {NoExit, 0, 1, 2}
    /\ page \in 1..MaxPageReq

\* =================================================================
\* Properties
\* =================================================================
Preview == cmd = "diff" \/ (cmd = "push" /\ dry_run)

Apply == cmd = "push" /\ ~dry_run

ManifestIds == Range(in_scope.enabled) \cup Range(in_scope.disabled)

\* the remote rules, looked up by rule_id without the rule map
HasRule(rs, rid) == \E i \in DOMAIN rs : rs[i].rule_id = rid

LastRule(rs, rid) ==
    rs[CHOOSE i \in DOMAIN rs :
          /\ rs[i].rule_id = rid
          /\ \A j \in DOMAIN rs : rs[j].rule_id = rid => j <= i]

\* C1: after a push in apply mode whose bulk calls all succeeded, a second
\* push with the same manifest and an unchanged backend computes an empty
\* to_enable and an empty to_disable and issues no bulk_action call.
C1_PushIdempotent ==
    (prev_applied /\ cmd = "push" /\ classified)
        => /\ to_enable_ids = <<>>
           /\ to_disable_ids = <<>>
           /\ bulk_calls = <<>>

\* the classes of a manifest identifier
InToEnable(x) ==
    IF cmd = "diff" THEN x \in Range(to_enable)
    ELSE x \in DOMAIN rule_map /\ rule_map[x].id \in Range(to_enable_ids)

InToDisable(x) ==
    IF cmd = "diff" THEN x \in Range(to_disable)
    ELSE x \in DOMAIN rule_map /\ rule_map[x].id \in Range(to_disable_ids)

InNotFound(x) == x \in Range(not_found)

Satisfied(x) == ~InToEnable(x) /\ ~InToDisable(x) /\ ~InNotFound(x)

ClassesOf(x) ==
    (IF InToEnable(x) THEN {"needs-enable"} ELSE {}) \cup
    (IF InToDisable(x) THEN {"needs-disable"} ELSE {}) \cup
    (IF InNotFound(x) THEN {"not-found"} ELSE {}) \cup
    (IF Satisfied(x) THEN {"already-satisfied"} ELSE {})

\* C2: every identifier of manifest.enabled and manifest.disabled is in
\* exactly one of needs-enable, needs-disable, already-satisfied, not-found,
\* and the output lists hold nothing but manifest identifiers.
C2_ClassificationPartition ==
    classified =>
        /\ \A x \in ManifestIds : Cardinality(ClassesOf(x)) = 1
        /\ Range(not_found) \subseteq ManifestIds
        /\ cmd = "diff" =>
              Range(to_enable) \cup Range(to_disable) \subseteq ManifestIds
        /\ cmd = "push" =>
              Range(to_enable_ids) \cup Range(to_disable_ids) \subseteq
                  {rule_map[x].id : x \in ManifestIds \cap DOMAIN rule_map}

\* an identifier listed in both lists is classified, another is not found
W_C2 ==
    /\ classified /\ cmd = "push"
    /\ \E x \in Range(in_scope.enabled) \cap Range(in_scope.disabled) :
          InToDisable(x)
    /\ \E x \in ManifestIds : InNotFound(x)

\* the reference filter over the remote rules
RefOff(rid) == HasRule(remote, rid) /\ ~LastRule(remote, rid).enabled

RefOn(rid) == HasRule(remote, rid) /\ LastRule(remote, rid).enabled

RefAbsent(rid) == ~HasRule(remote, rid)

RefIds(rids) == [i \in DOMAIN rids |-> LastRule(remote, rids[i]).id]

\* C3: to_enable is the subsequence of manifest.enabled present remotely
\* with enabled=false, to_disable the subsequence of manifest.disabled
\* present remotely with enabled=true, not_found the identifiers of both
\* lists absent remotely, each in manifest order.
C3_ReferenceFilter ==
    (classified /\ bulk_calls = <<>>) =>
        /\ not_found = SelectSeq(in_scope.enabled, RefAbsent)
                          \o SelectSeq(in_scope.disabled, RefAbsent)
        /\ cmd = "diff" =>
              /\ to_enable = SelectSeq(in_scope.enabled, RefOff)
              /\ to_disable = SelectSeq(in_scope.disabled, RefOn)
        /\ cmd = "push" =>
              /\ to_enable_ids = RefIds(SelectSeq(in_scope.enabled, RefOff))
              /\ to_disable_ids = RefIds(SelectSeq(in_scope.disabled, RefOn))

\* the manifest lists A before B, the backend B before A, both are enabled
W_C3 ==
    /\ classified /\ cmd = "diff"
    /\ to_enable = <<"A", "B">>
    /\ Len(remote) = 2 /\ remote[1].rule_id = "B" /\ remote[2].rule_id = "A"

\* C4: no step of diff or of push --dry-run issues a bulk_action call or
\* changes a remote rule.
C4_PreviewNeverMutates ==
    [][Preview' => (remote' = remote /\ bulk_calls' = <<>>)]_vars

W_C4 ==
    /\ cmd = "push" /\ dry_run /\ pc = "done" /\ exit_code = 0
    /\ to_enable_ids # <<>>
    /\ to_disable_ids # <<>>

IssuedFor(action) == {i \in DOMAIN bulk_calls : bulk_calls[i].action = action}

\* C5: a push issues at most two bulk calls, at most one per action, each
\* with all ids of its class and only for a non-empty class; with both
\* classes empty it issues none and reports that no changes are needed.
C5_AtMostTwoBulkCalls ==
    /\ Len(bulk_calls) <= 2
    /\ Cardinality(IssuedFor("enable")) <= 1
    /\ Cardinality(IssuedFor("disable")) <= 1
    /\ \A i \in DOMAIN bulk_calls :
          /\ bulk_calls[i].action \in {"enable", "disable"}
          /\ bulk_calls[i].ids # <<>>
          /\ bulk_calls[i].ids = IF bulk_calls[i].action = "enable"
                                 THEN to_enable_ids ELSE to_disable_ids
    /\ (Apply /\ pc = "done" /\ exit_code = 0) =>
          /\ (to_enable_ids # <<>>) <=> (IssuedFor("enable") # {})
          /\ (to_disable_ids # <<>>) <=> (IssuedFor("disable") # {})
          /\ (to_enable_ids = <<>> /\ to_disable_ids = <<>>)
                <=> (report = "no_changes")

W_C5 ==
    /\ Apply /\ pc = "done" /\ exit_code = 0
    /\ Len(bulk_calls) = 2
    /\ Len(bulk_calls[1].ids) = 2

\* C8: diff, push --dry-run and push in apply mode compute the same
\* classification for the same manifest and the same remote rules.
C8_SameClassification ==
    (classified /\ prev_report.mode # "none") =>
        /\ CurrentReport.to_enable = prev_report.to_enable
        /\ CurrentReport.to_disable = prev_report.to_disable
        /\ CurrentReport.not_found = prev_report.not_found

W_C8 ==
    /\ classified /\ Apply /\ bulk_calls = <<>>
    /\ prev_report.mode \in {"dry_run", "diff"}
    /\ to_enable_ids # <<>>
    /\ not_found # <<>>

IsEnabled(id) == \E i \in DOMAIN remote : remote[i].id = id /\ remote[i].enabled

\* C9: the enable call comes before the disable call; when the enable call
\* succeeded and the disable call failed, the rules enabled stay enabled,
\* no further request is issued and the exit code is 2.
C9_PartialFailure ==
    /\ \A i, j \in DOMAIN bulk_calls :
          (bulk_calls[i].action = "enable" /\ bulk_calls[j].action = "disable")
              => i < j
    /\ (Len(bulk_calls) >= 2 /\ bulk_calls[1].ok /\ ~bulk_calls[2].ok) =>
          /\ pc = "done"
          /\ exit_code = 2
          /\ Len(bulk_calls) = 2
          /\ \A id \in Range(bulk_calls[1].ids) : IsEnabled(id)

W_C9 ==
    /\ pc = "done"
    /\ Len(bulk_calls) = 2 /\ bulk_calls[1].ok /\ ~bulk_calls[2].ok
    /\ bulk_calls[1].action = "enable"

InMap(rid) == rid \in DOMAIN rule_map

FoundOnly == [enabled |-> SelectSeq(in_scope.enabled, InMap),
              disabled |-> SelectSeq(in_scope.disabled, InMap)]

\* C10: an identifier absent remotely is recorded in not_found, adds no id
\* to a bulk call, and the other identifiers are classified and pushed as
\* if it were not in the manifest.
C10_NotFoundNonFatal ==
    (classified /\ cmd = "push") =>
        /\ \A x \in ManifestIds : ~InMap(x) => InNotFound(x)
        /\ to_enable_ids = push_changes(FoundOnly, rule_map).to_enable_ids
        /\ to_disable_ids = push_changes(FoundOnly, rule_map).to_disable_ids
        /\ \A i \in DOMAIN bulk_calls :
              Range(bulk_calls[i].ids) \subseteq
                  {rule_map[x].id : x \in ManifestIds \cap DOMAIN rule_map}
        /\ (pc = "done" /\ \A i \in DOMAIN bulk_calls : bulk_calls[i].ok)
              => exit_code = 0

W_C10 ==
    /\ Apply /\ pc = "done" /\ exit_code = 0
    /\ in_scope.enabled # <<>>
    /\ Head(in_scope.enabled) \in Range(not_found)
    /\ bulk_calls # <<>>

PageSize == Min(per_page, srv_page)

\* C6: against a backend that reports total=N on every page, get_all_rules
\* requests the pages 1,2,3,... in order, ends, and returns the N rules of
\* the backend, each once.
C6_PaginationComplete ==
    /\ [](backend = "honest" =>
            /\ pc = "fetch" =>
                  /\ (page - 1) * PageSize <= Len(remote)
                  /\ all_rules = SubSeq(remote, 1, (page - 1) * PageSize)
            /\ pc = "fetched" =>
                  /\ all_rules = remote
                  /\ (page - 1) * PageSize < Len(remote) \/ page = 1
                  /\ page * PageSize >= Len(remote))
    /\ ((backend = "honest" /\ pc = "fetch") ~> (pc # "fetch"))

W_C6 ==
    /\ backend = "honest" /\ pc = "fetched"
    /\ Len(all_rules) = 2 /\ page = 2

\* C7: get_all_rules terminates whatever the backend answers.
C7_FetchTerminates == (pc = "fetch") ~> (pc # "fetch")

\* ----------------------------------------------------------------- C11
Unlisted(i) == remote[i].rule_id \notin ManifestIds

\* C11: a remote rule whose rule_id is in neither manifest list is in no
\* bulk call and keeps its enabled flag through every step of push.
C11_Frame ==
    [][\A i \in DOMAIN remote :
          Unlisted(i) =>
              /\ remote'[i] = remote[i]
              /\ \A k \in DOMAIN bulk_calls' :
                    remote[i].id \notin Range(bulk_calls'[k].ids)]_vars

\* a push changed a listed rule while an unlisted one is enabled, another
\* one possibly disabled
W_C11 ==
    /\ Apply /\ pc = "done" /\ exit_code = 0
    /\ \E k \in DOMAIN bulk_calls : bulk_calls[k].ok
    /\ \E i \in DOMAIN remote : Unlisted(i) /\ remote[i].enabled

\* ----------------------------------------------------------------- C12
\* C12 as stated: diff ends with exit code 0 in every execution.
C12_DiffAlwaysZero == (cmd = "diff" /\ pc = "done") => exit_code = 0

\* C12 amended: diff ends with exit code 0 exactly when it reaches the
\* drift report, with or without drift; an execution that ends before the
\* report ends with 1 or 2, and with 2 when the rule fetch failed.
C12_DiffExitCodes ==
    (cmd = "diff" /\ pc = "done") =>
        /\ classified <=> (exit_code = 0)
        /\ ~classified => exit_code \in {1, 2}
        /\ (requests # <<>> /\ ~requests[Len(requests)].ok) => exit_code = 2

W_C12 ==
    /\ cmd = "diff" /\ pc = "done" /\ exit_code = 0
    /\ to_enable # <<>> /\ not_found # <<>>

\* ----------------------------------------------------------------- C17
CallIds(action) ==
    UNION {Range(bulk_calls[k].ids) : k \in IssuedFor(action)}

\* C17: no internal id is sent in both the enable and the disable call of
\* one push, and to_enable, to_disable and not_found are pairwise disjoint,
\* also for a manifest that lists an identifier in both lists.
C17_DisjointTargets ==
    /\ CallIds("enable") \cap CallIds("disable") = {}
    /\ Range(to_enable_ids) \cap Range(to_disable_ids) = {}
    /\ Range(to_enable) \cap Range(to_disable) = {}
    /\ Range(to_enable) \cap Range(not_found) = {}
    /\ Range(to_disable) \cap Range(not_found) = {}
    /\ \A x \in Range(not_found) : x \notin DOMAIN rule_map

W_C17 ==
    /\ Apply /\ pc = "done"
    /\ CallIds("enable") # {} /\ CallIds("disable") # {}
    /\ Range(in_scope.enabled) \cap Range(in_scope.disabled) # {}

\* ----------------------------------------------------------------- C18
\* C18: when diff or push has ended, the client it constructed is closed,
\* whether it ended normally, on a failed fetch or on a failed bulk call.
C18_ClientReleased == (pc \in {"idle", "done"}) => ~client_open

W_C18 ==
    /\ pc = "done" /\ exit_code = 2
    /\ bulk_calls # <<>> /\ ~bulk_calls[Len(bulk_calls)].ok

\* ----------------------------------------------------------------- C19
\* cli.py push: "Warning: The following rule_ids were not found" is the
\* only warning diff and push emit
warnings ==
    IF cmd = "push" /\ classified /\ not_found # <<>> THEN {"not_found"} ELSE {}

Duplicates ==
    \E i, j \in DOMAIN all_rules :
        i # j /\ all_rules[i].rule_id = all_rules[j].rule_id

\* C19: when the fetched rule list holds a rule_id twice, the command flags
\* the duplicate as a warning instead of keeping the last rule silently.
C19_DuplicatesFlagged ==
    (classified /\ Duplicates) => "duplicate_rule_id" \in warnings

\* ----------------------------------------------------------------- C13
\* C13: push issues every backend request (each page of the listing, the
\* enable call, the disable call) at most once; a failed request is the
\* last one of the command, which then ends with exit code 2.
C13_NoRetry ==
    cmd = "push" =>
        /\ \A i, j \in DOMAIN requests :
              (requests[i].kind = requests[j].kind
                  /\ requests[i].page = requests[j].page) => i = j
        /\ \A i \in DOMAIN requests :
              ~requests[i].ok =>
                  /\ i = Len(requests)
                  /\ pc = "done"
                  /\ exit_code = 2
        /\ Len(requests) < MaxRequests

\* the second page of the listing failed
W_C13 ==
    /\ cmd = "push" /\ pc = "done" /\ exit_code = 2
    /\ Len(requests) = 2
    /\ requests[2].kind = "find" /\ ~requests[2].ok

\* ----------------------------------------------------------------- C14
Broken(f) == f.kind # "doc" \/ f.bad # {}

ReportedFor(name) == \E i \in DOMAIN r_errors : r_errors[i].file = name

\* C14: validate checks both files whatever is wrong with the other one,
\* reports the errors of both in one run, and exits 1 exactly when it
\* collected an error or the customer directory does not exist.
C14_ValidateCollectsAll ==
    r_cmd = "validate" =>
        /\ fs[r_arg].exists =>
              /\ Broken(fs[r_arg].config) <=> ReportedFor("config.yaml")
              /\ Broken(fs[r_arg].rules) <=> ReportedFor("in-scope-rules.yaml")
        /\ (r_exit = 1) <=> (r_errors # <<>> \/ ~fs[r_arg].exists)
        /\ r_exit \in {0, 1}

\* ----------------------------------------------------------------- C15
\* C15: list prints exactly the customer directories that hold both
\* config.yaml and in-scope-rules.yaml.
C15_ListBothFiles ==
    r_cmd = "list" =>
        r_listed = {c \in Customers :
                       /\ fs[c].exists
                       /\ fs[c].config.kind # "missing"
                       /\ fs[c].rules.kind # "missing"}

\* ----------------------------------------------------------------- C16
\* C16: add-customer on a missing directory creates it with config.yaml and
\* in-scope-rules.yaml and exits 0; on an existing directory it exits 1 and
\* leaves every file as it was.
C16_AddCustomerOnce ==
    [][r_cmd' = "add" =>
          IF fs[r_arg'].exists
          THEN r_exit' = 1 /\ fs' = fs
          ELSE /\ r_exit' = 0
               /\ fs'[r_arg'].exists
               /\ fs'[r_arg'].config.kind # "missing"
               /\ fs'[r_arg'].rules.kind # "missing"
               /\ \A c \in Customers \ {r_arg'} : fs'[c] = fs[c]]_vars

\* add-customer was refused for a directory that has no config.yaml
W_C16 ==
    /\ r_cmd = "add" /\ r_exit = 1
    /\ fs[r_arg].exists /\ fs[r_arg].config.kind = "missing"
    /\ \E c \in Customers : fs[c] = Scaffold

====
